---- MODULE Spec2Model ----
(***************************************************************************)
(* Model of the novis reverse-proxy gateway (src/novis.go, src/utils.go):  *)
(* the service registry, the router (proxyRequest), the discovery handler, *)
(* pause / resume / remove and the health-check loop.                      *)
(*                                                                         *)
(* Spec is the serving gateway, built by New or by NewFromConfig.          *)
(* SpecNew and SpecStoreDown are gateways built by New whose callers also  *)
(* call AddService, the second with an unreachable store. SpecLife adds    *)
(* Close and the return of Start. SpecFine takes the snapshot write of the *)
(* health check in its two steps, marshal and set.                         *)
(*                                                                         *)
(* Go strings are modelled as sequences of one-character strings, so that  *)
(* strings.Trim, ToLower, Split, HasPrefix and Replace are computed as the *)
(* library computes them.                                                  *)
(***************************************************************************)
EXTENDS Naturals, Sequences, FiniteSets, TLC

VARIABLES
    services,      \* Novis.services: registry key -> Service
    storage,       \* value stored under svcKey in the store (a snapshot or absent)
    discoveryURL,  \* Novis.opts.DiscoveryURL
    hc,            \* position of the healthCheck goroutine
    storeUp,       \* whether the store answers (Get / Set return no error)
    last,          \* observable outcome of the operation that ran last
    running,       \* FALSE once a nil-pointer panic has ended the process
    server         \* Novis.server: "serving", "closed" by Close, "returned" once
                   \* ListenAndServe and with it Start has returned

vars == <<services, storage, discoveryURL, hc, storeUp, last, running, server>>

----------------------------------------------------------------------------
(* Go string functions on sequences of characters *)

ToLowerChar(c) ==
    IF c = "A" THEN "a"
    ELSE IF c = "D" THEN "d"
    ELSE c

\* strings.ToLower
ToLower(s) == [i \in 1..Len(s) |-> ToLowerChar(s[i])]

\* strings.HasPrefix
HasPrefix(s, p) == Len(p) <= Len(s) /\ SubSeq(s, 1, Len(p)) = p

RECURSIVE TrimLeft(_)
TrimLeft(s) == IF s # <<>> /\ Head(s) = "/" THEN TrimLeft(Tail(s)) ELSE s

RECURSIVE TrimRight(_)
TrimRight(s) ==
    IF s # <<>> /\ s[Len(s)] = "/" THEN TrimRight(SubSeq(s, 1, Len(s) - 1)) ELSE s

\* strings.Trim(s, "/")
Trim(s) == TrimRight(TrimLeft(s))

\* strings.Index: position of the first occurrence of sub in s, 0 when absent
Index(s, sub) ==
    LET hits == {i \in 1..(Len(s) + 1) :
                    /\ i + Len(sub) - 1 <= Len(s)
                    /\ SubSeq(s, i, i + Len(sub) - 1) = sub}
    IN  IF hits = {} THEN 0 ELSE CHOOSE i \in hits : \A j \in hits : i <= j

\* strings.Replace(s, old, "", 1) for a non-empty old
ReplaceFirst(s, old) ==
    LET i == Index(s, old)
    IN  IF i = 0 THEN s
        ELSE SubSeq(s, 1, i - 1) \o SubSeq(s, i + Len(old), Len(s))

\* strings.Split(s, "/"): always at least one element, empty segments kept
RECURSIVE Split(_)
Split(s) ==
    LET i == Index(s, <<"/">>)
    IN  IF i = 0 THEN <<s>>
        ELSE <<SubSeq(s, 1, i - 1)>> \o Split(SubSeq(s, i + 1, Len(s)))

\* removeEmptyStr
RECURSIVE removeEmptyStr(_)
removeEmptyStr(l) ==
    IF l = <<>> THEN <<>>
    ELSE IF Len(Head(l)) > 0 THEN <<Head(l)>> \o removeEmptyStr(Tail(l))
    ELSE removeEmptyStr(Tail(l))

----------------------------------------------------------------------------
(* Values *)

UP == "UP"
DOWN == "DOWN"
PAUSE == "PAUSE"
CHECKING == "CHECKING"
\* zero value of ServiceStatus, the Status of a struct literal that sets none
NoStatus == ""

GoodHost == "http://h1"
\* a host url.Parse rejects (missing protocol scheme)
BadHost == ":bad"
HealthURL == "h1:80"

\* url.Parse(host) returns no error
UrlParseOk(h) == h # BadHost

Slash == <<"/">>

\* a decoded-or-not request body of the discovery endpoint
Body(h, p, u) == [malformed |-> FALSE, Host |-> h, Path |-> p, HealthCheckURL |-> u]
NoBody == [malformed |-> TRUE, Host |-> "", Path |-> <<>>, HealthCheckURL |-> ""]

BodyD == Body(GoodHost, <<"d">>, HealthURL)
BodyDA == Body(GoodHost, <<"/", "d", "A">>, HealthURL)
BodyEmptyPath == Body(GoodHost, <<"/">>, HealthURL)
BodyNoHealth == Body(GoodHost, <<"d">>, "")
BodyBadHost == Body(BadHost, <<"d">>, HealthURL)

Req(m, p, b) == [method |-> m, path |-> p, body |-> b]

\* requests to a path that equals a configured discovery path
DiscoveryRequests ==
    { Req("POST", <<"/", "d">>, b) :
        b \in {NoBody, BodyD, BodyDA, BodyEmptyPath, BodyNoHealth, BodyBadHost} }
      \cup { Req("GET", <<"/", "d">>, BodyD),
             Req("POST", <<"/", "x", "/", "d">>, BodyD),
             Req("POST", <<"/", "x", "/", "d">>, BodyNoHealth),
             Req("GET", <<"/", "x", "/", "d">>, BodyD) }

\* the other requests
PlainRequests ==
    { Req("GET", p, NoBody) :
        p \in { <<"/">>,
                <<"/", "d", "/", "b">>,
                <<"/", "D", "/", "b">>,
                <<"/", "d", "a">>,
                <<"/", "x">>,
                <<"/", "D">> } }

Requests == DiscoveryRequests \cup PlainRequests

\* Service.Path values handed to PauseService / ResumeService / RemoveService
Hints ==
    { <<"d">>, <<"/", "d">>, <<"d", "A", "/", "x">> }

\* the registry as JSON with the healthCheckURL of every Service left out
MarshalOmittingHealthCheck(svcs) ==
    [k \in DOMAIN svcs |->
        [host |-> svcs[k].Host, path |-> svcs[k].Path,
         status |-> svcs[k].Status, healthCheckURL |-> ""]]

\* the registry as JSON: the exported fields of every Service
Marshal(svcs) ==
    [k \in DOMAIN svcs |->
        [host |-> svcs[k].Host, path |-> svcs[k].Path,
         status |-> svcs[k].Status, healthCheckURL |-> svcs[k].HealthCheckURL]]

NoServices == [k \in {} |-> NoBody]

Absent == [present |-> FALSE, value |-> Marshal(NoServices)]
Stored(svcs) == [present |-> TRUE, value |-> Marshal(svcs)]

\* a snapshot an earlier run of the gateway left under svcKey
PriorD ==
    Stored((<<"d">> :> [Host |-> GoodHost, Path |-> <<"d">>, Status |-> UP,
                        HealthCheckURL |-> HealthURL, mux |-> TRUE]))

\* server.services of a YAML configuration
ConfigD == << [Host |-> GoodHost, Path |-> <<"D">>, HealthCheckURL |-> ""] >>

\* the ways the gateway is built: the configured services (none for New), the
\* discovery path, what the store holds beforehand and whether it answers
Deployment(c, du, st, up) == [cfg |-> c, discoveryURL |-> du, store |-> st, storeUp |-> up]

Deployments ==
    { Deployment(<<>>, <<"d">>, PriorD, TRUE),
      Deployment(ConfigD, <<"x", "/", "d">>, Absent, TRUE) }

\* a gateway built by New on a store that holds an earlier snapshot
NewDeployments == { Deployment(<<>>, <<"d">>, PriorD, TRUE) }

\* the same gateway when the store cannot be reached
StoreDownDeployments == { Deployment(<<>>, <<"d">>, PriorD, FALSE) }

\* Services a caller of the package hands to AddService: mux is unexported, so
\* it is nil; Host is whatever the caller wrote, url.Parse is not applied
ApiBadHost == [Host |-> BadHost, Path |-> <<"d", "a">>, Status |-> CHECKING,
               HealthCheckURL |-> HealthURL, mux |-> FALSE]
ApiServices == {ApiBadHost}

----------------------------------------------------------------------------
(* HTTP status codes written by Respond *)

StatusOK == 200
StatusBadRequest == 400
StatusNotFound == 404
StatusMethodNotAllowed == 405
StatusBadGateway == 502

\* the status line the client receives: the first WriteHeader wins, and a
\* handler that returns without writing one answers 200
Answered(writes) == IF writes = <<>> THEN StatusOK ELSE writes[1]

----------------------------------------------------------------------------
(* Registry *)

\* AddService: insert or overwrite at lower(trim(Path, "/")), unless that is empty
AddsEntry(service) == Len(Trim(service.Path)) > 0

AddKey(service) == ToLower(Trim(service.Path))

AddService(svcs, service) ==
    IF AddsEntry(service) THEN (AddKey(service) :> service) @@ svcs ELSE svcs

\* the key PauseService, ResumeService and RemoveService resolve a Path to
HintKey(path) == ToLower(Split(path)[1])

\* RemoveService deleting at the segment as written, not lower-cased
RemoveServiceNoLower(svcs, path) ==
    LET lp == Split(path)[1]
    IN  [k \in DOMAIN svcs \ {lp} |-> svcs[k]]

\* RemoveService: delete the entry at the resolved key when it is there
RemoveService(svcs, path) ==
    LET lp == HintKey(path)
    IN  [k \in DOMAIN svcs \ {lp} |-> svcs[k]]

\* Service.SetStatus on the entry at key k
SetStatus(svcs, k, status) == [svcs EXCEPT ![k].Status = status]

\* findServiceInMap: the empty key returned when no registry key matches
NotFound == <<>>

\* findServiceInMap: the keys the map iteration may stop at, or "" when none fits
findServiceInMap(svcs, path) ==
    LET fits == {k \in DOMAIN svcs : HasPrefix(ToLower(path), ToLower(k))}
    IN  IF fits = {} THEN {NotFound} ELSE fits

\* isServiceAlive taking a failed dial for a live service
isServiceAliveIgnoringError(u, reachable) == UP

\* isServiceAlive: the dial fails for an empty address, else as the network has it
isServiceAlive(u, reachable) == IF u # "" /\ reachable THEN UP ELSE DOWN

----------------------------------------------------------------------------
(* Request handling *)

MethodToLower(m) == IF m = "POST" THEN "post" ELSE IF m = "GET" THEN "get" ELSE m

HealthCheckInvalid == "Health check url is not valid"

\* discovery without the check of HealthCheckURL
discoveryUnvalidated(req) ==
    LET paths == removeEmptyStr(Split(req.path))
        w1    == IF Len(paths) # 1 THEN <<StatusNotFound>> ELSE <<>>
        s     == [Host |-> req.body.Host, Path |-> req.body.Path, Status |-> CHECKING,
                  HealthCheckURL |-> req.body.HealthCheckURL, mux |-> TRUE]
        out(w, m, e, a) == [writes |-> w, msg |-> m, err |-> e, add |-> a, service |-> s]
    IN  IF Len(paths) = 1 /\ MethodToLower(req.method) # "post"
            THEN out(<<StatusMethodNotAllowed>>, "", TRUE, FALSE)
        ELSE IF req.body.malformed
            THEN out(w1 \o <<StatusBadRequest>>, "", TRUE, FALSE)
        ELSE IF ~UrlParseOk(req.body.Host)
            THEN out(w1 \o <<StatusBadRequest>>, "", TRUE, FALSE)
        ELSE out(w1, "", FALSE, TRUE)

\* discovery: the statuses and the message written, whether it returns an
\* error, and the Service it hands to AddService (add = FALSE when it returns
\* before that)
discovery(req) ==
    LET paths == removeEmptyStr(Split(req.path))
        w1    == IF Len(paths) # 1 THEN <<StatusNotFound>> ELSE <<>>
        s     == [Host |-> req.body.Host, Path |-> req.body.Path, Status |-> CHECKING,
                  HealthCheckURL |-> req.body.HealthCheckURL, mux |-> TRUE]
        out(w, m, e, a) == [writes |-> w, msg |-> m, err |-> e, add |-> a, service |-> s]
    IN  IF Len(paths) = 1 /\ MethodToLower(req.method) # "post"
            THEN out(<<StatusMethodNotAllowed>>, "", TRUE, FALSE)
        ELSE IF req.body.malformed
            THEN out(w1 \o <<StatusBadRequest>>, "", TRUE, FALSE)
        ELSE IF Len(req.body.HealthCheckURL) = 0
            THEN out(w1 \o <<StatusBadRequest>>, HealthCheckInvalid, TRUE, FALSE)
        ELSE IF ~UrlParseOk(req.body.Host)
            THEN out(w1 \o <<StatusBadRequest>>, "", TRUE, FALSE)
        ELSE out(w1, "", FALSE, TRUE)

\* the path of the forwarded request: the first "/"+Path of the service removed
ForwardPath(path, service) == ReplaceFirst(path, Slash \o service.Path)

\* route without the check of the status
routeAnyStatus(svcs, sn, req) ==
    LET found == sn \in DOMAIN svcs
        out(w, f, fp) == [writes |-> w, forwarded |-> f, fwdPath |-> fp]
    IN  IF ~found THEN out(<<StatusNotFound>>, FALSE, <<>>)
        ELSE IF ~UrlParseOk(svcs[sn].Host) THEN out(<<StatusBadGateway>>, FALSE, <<>>)
        ELSE out(<<>>, TRUE, ForwardPath(req.path, svcs[sn]))

\* proxyRequest's branch for a path that is not the discovery path
route(svcs, sn, req) ==
    LET found == sn \in DOMAIN svcs
        out(w, f, fp) == [writes |-> w, forwarded |-> f, fwdPath |-> fp]
    IN  IF ~found THEN out(<<StatusNotFound>>, FALSE, <<>>)
        ELSE IF svcs[sn].Status # UP THEN out(<<StatusNotFound>>, FALSE, <<>>)
        ELSE IF ~UrlParseOk(svcs[sn].Host) THEN out(<<StatusBadGateway>>, FALSE, <<>>)
        ELSE out(<<>>, TRUE, ForwardPath(req.path, svcs[sn]))

\* proxyRequest hands the request to discovery
IsDiscovery(paths, du) == paths = ToLower(du)

----------------------------------------------------------------------------
(* Construction: New / NewFromConfig *)

\* NewFromConfig's loop over server.services: keyed by the trimmed Path
initialServices(cfg) ==
    [k \in {Trim(cfg[i].Path) : i \in DOMAIN cfg} |->
        LET i == CHOOSE j \in DOMAIN cfg :
                    /\ Trim(cfg[j].Path) = k
                    /\ \A m \in DOMAIN cfg : Trim(cfg[m].Path) = k => m <= j
        IN  [Host |-> cfg[i].Host, Path |-> cfg[i].Path, Status |-> CHECKING,
             HealthCheckURL |-> cfg[i].HealthCheckURL, mux |-> FALSE]]

\* the Service LoadFromStorage builds from a stored entry: no Status is set
Loaded(v) ==
    [Host |-> v.host, Path |-> v.path, Status |-> NoStatus,
     HealthCheckURL |-> v.healthCheckURL, mux |-> TRUE]

\* LoadFromStorage ranging over the decoded map in the given order: every
\* stored entry goes through AddService, and the first Host url.Parse rejects
\* ends the load with what was added so far
RECURSIVE LoadInOrder(_, _, _)
LoadInOrder(svcs, value, order) ==
    IF order = <<>> THEN svcs
    ELSE IF ~UrlParseOk(value[Head(order)].host) THEN svcs
    ELSE LoadInOrder(AddService(svcs, Loaded(value[Head(order)])), value, Tail(order))

Orders(S) ==
    {o \in [1..Cardinality(S) -> S] : \A i, j \in DOMAIN o : o[i] = o[j] => i = j}

\* LoadFromStorage: nothing is loaded when Get fails or the key is absent
LoadFromStorage(svcs, store, up, order) ==
    IF up /\ store.present THEN LoadInOrder(svcs, store.value, order) ELSE svcs

\* UpdateStorage: the snapshot of svcs replaces the stored value unless Set fails
UpdateStorage(svcs, store, up) == IF up THEN Stored(svcs) ELSE store

\* the healthCheck goroutine between two ticks. Inside a tick: the keys the
\* range has yielded, the keys inserted since it began, the entry at hand with
\* the status and address read from it, whether that entry is still the one
\* in the map, and the JSON that UpdateStorage has marshalled and not yet set
Idle == [phase |-> "idle", seen |-> {}, new |-> {}, key |-> <<>>, cur |-> NoStatus,
         url |-> "", live |-> FALSE, pending |-> Absent]

\* what an operation leaves to observe: the path of a routed request, the
\* statuses and message written to the client, the forwarded request, the key
\* worked on, whether a snapshot was written, the error returned and the
\* status found
NoOut == [op |-> "new", path |-> <<>>, writes |-> <<>>, msg |-> "", forwarded |-> FALSE,
          fwdPath |-> <<>>, sn |-> <<>>, snap |-> FALSE, err |-> FALSE,
          was |-> NoStatus]

\* New / NewFromConfig: seed, LoadFromStorage, UpdateStorage
InitFrom(D) ==
    \E d \in D :
      \E order \in Orders(DOMAIN d.store.value) :
        /\ services = LoadFromStorage(initialServices(d.cfg), d.store, d.storeUp, order)
        /\ storage = UpdateStorage(services, d.store, d.storeUp)
        /\ discoveryURL = d.discoveryURL
        /\ storeUp = d.storeUp
        /\ hc = Idle
        /\ last = NoOut
        /\ running = TRUE
        /\ server = "serving"

Init == InitFrom(Deployments)

----------------------------------------------------------------------------
(* Operations *)

\* the healthCheck iteration as an insert at key k leaves it
HcAfterAdd(k) ==
    IF hc.phase = "idle" THEN hc
    ELSE [hc EXCEPT !.new = IF k \in DOMAIN services THEN @ ELSE @ \cup {k},
                    !.live = @ /\ k # hc.key]

\* the healthCheck iteration as a delete of key k leaves it
HcAfterRemove(k) ==
    IF hc.phase = "idle" THEN hc
    ELSE [hc EXCEPT !.seen = @ \ {k}, !.new = @ \ {k}, !.live = @ /\ k # hc.key]

\* proxyRequest on req, with the discovery handler it may call; the server
\* hands it requests until it is closed
Handle(req) ==
    LET paths == Trim(req.path)
    IN  /\ running
        /\ server = "serving"
        /\ IF Len(paths) = 0
             THEN /\ last' = [NoOut EXCEPT !.op = "root", !.writes = <<StatusOK>>]
                  /\ UNCHANGED <<services, storage, hc>>
           ELSE IF IsDiscovery(paths, discoveryURL)
             THEN LET d == discovery(req)
                      adds == d.add /\ AddsEntry(d.service)
                  IN  /\ services' = IF d.add THEN AddService(services, d.service)
                                     ELSE services
                      /\ storage' = IF adds
                                      THEN UpdateStorage(services', storage, storeUp)
                                    ELSE storage
                      /\ hc' = IF adds THEN HcAfterAdd(AddKey(d.service)) ELSE hc
                      /\ last' = [NoOut EXCEPT !.op = "discovery",
                                               !.writes = d.writes, !.msg = d.msg,
                                               !.err = d.err, !.snap = adds]
           ELSE \E sn \in findServiceInMap(services, paths) :
                  LET r == route(services, sn, req)
                  IN  /\ last' = [NoOut EXCEPT !.op = "proxy", !.path = req.path,
                                               !.writes = r.writes,
                                               !.forwarded = r.forwarded,
                                               !.fwdPath = r.fwdPath, !.sn = sn]
                      /\ UNCHANGED <<services, storage, hc>>
        /\ UNCHANGED <<discoveryURL, storeUp, running, server>>

HandleRequest == \E req \in Requests : Handle(req)

\* AddService reporting the error of UpdateStorage to its caller
AddServiceErrFromStore(up) == ~up

\* AddService: the error returned; UpdateStorage's error is assigned and dropped
AddServiceErr(up) == FALSE

\* AddService called with a Service of the caller's making
Add(service) ==
    LET adds == AddsEntry(service)
    IN  /\ running
        /\ services' = AddService(services, service)
        /\ storage' = IF adds THEN UpdateStorage(services', storage, storeUp)
                      ELSE storage
        /\ hc' = IF adds THEN HcAfterAdd(AddKey(service)) ELSE hc
        /\ last' = [NoOut EXCEPT !.op = "add", !.sn = AddKey(service), !.snap = adds,
                                 !.err = adds /\ AddServiceErr(storeUp)]
        /\ UNCHANGED <<discoveryURL, storeUp, running, server>>

AddCall == \E service \in ApiServices : Add(service)

\* PauseService / ResumeService: n.services[key].SetStatus(status); the entry of
\* an absent key is a nil *Service, and SetStatus on it panics: the process
\* ends, and with it the registry and the healthCheck goroutine
SetStatusByHint(op, path, status) ==
    LET k == HintKey(path)
    IN  /\ running
        /\ IF k \in DOMAIN services
             THEN /\ services' = SetStatus(services, k, status)
                  /\ last' = [NoOut EXCEPT !.op = op, !.sn = k,
                                           !.was = services[k].Status]
                  /\ UNCHANGED <<running, hc>>
             ELSE /\ running' = FALSE
                  /\ services' = NoServices
                  /\ hc' = Idle
                  /\ last' = [NoOut EXCEPT !.op = "panic", !.sn = k]
        /\ UNCHANGED <<storage, discoveryURL, storeUp, server>>

PauseService(path) == SetStatusByHint("pause", path, PAUSE)

\* ResumeService putting the service straight back to UP
ResumeServiceToUp(path) == SetStatusByHint("resume", path, UP)

ResumeService(path) == SetStatusByHint("resume", path, CHECKING)

Pause == \E path \in Hints : PauseService(path)

Resume == \E path \in Hints : ResumeService(path)

\* RemoveService on a Service with the given Path, returning UpdateStorage's error
Remove(path) ==
    LET k == HintKey(path)
        found == k \in DOMAIN services
    IN  /\ running
        /\ services' = IF found THEN RemoveService(services, path) ELSE services
        /\ storage' = IF found THEN UpdateStorage(services', storage, storeUp)
                      ELSE storage
        /\ hc' = IF found THEN HcAfterRemove(k) ELSE hc
        /\ last' = [NoOut EXCEPT !.op = "remove", !.sn = k, !.snap = found,
                                 !.err = found /\ ~storeUp]
        /\ UNCHANGED <<discoveryURL, storeUp, running, server>>

RemoveCall == \E path \in Hints : Remove(path)

\* healthCheck: the ticker fires and the range over n.services begins
Tick ==
    /\ running
    /\ hc.phase = "idle"
    /\ hc' = [Idle EXCEPT !.phase = "tick"]
    /\ UNCHANGED <<services, storage, discoveryURL, storeUp, last, running, server>>

\* healthCheck: the range yields the next entry and its status is read
Visit ==
    /\ running
    /\ hc.phase = "tick"
    /\ \E k \in DOMAIN services \ hc.seen :
         hc' = IF services[k].Status = PAUSE
                 THEN [hc EXCEPT !.seen = @ \cup {k}, !.new = @ \ {k}]
               ELSE [hc EXCEPT !.phase = "probe", !.seen = @ \cup {k},
                               !.new = @ \ {k}, !.key = k,
                               !.cur = services[k].Status,
                               !.url = services[k].HealthCheckURL, !.live = TRUE]
    /\ UNCHANGED <<services, storage, discoveryURL, storeUp, last, running, server>>

\* healthCheck: the probe returns; a status that differs from the one read is
\* stored in the Service and the registry is snapshotted
Probe(reachable) ==
    LET status == isServiceAlive(hc.url, reachable)
        differs == hc.cur # status
    IN  /\ running
        /\ hc.phase = "probe"
        /\ services' = IF differs /\ hc.live
                         THEN SetStatus(services, hc.key, status)
                       ELSE services
        /\ storage' = IF differs THEN UpdateStorage(services', storage, storeUp)
                      ELSE storage
        /\ hc' = [hc EXCEPT !.phase = "tick", !.key = <<>>, !.cur = NoStatus,
                            !.url = "", !.live = FALSE]
        /\ last' = [NoOut EXCEPT !.op = "probe", !.sn = hc.key, !.was = hc.cur]
        /\ UNCHANGED <<discoveryURL, storeUp, running, server>>

ProbeReturns == \E reachable \in BOOLEAN : Probe(reachable)

\* healthCheck: the range is exhausted (entries inserted during it may be skipped)
EndTick ==
    /\ running
    /\ hc.phase = "tick"
    /\ (DOMAIN services \ hc.seen) \subseteq hc.new
    /\ hc' = Idle
    /\ UNCHANGED <<services, storage, discoveryURL, storeUp, last, running, server>>

\* a request or a call that writes the map now: an insert by AddService
\* through discovery, or a delete by RemoveService
MapWriterAtWork ==
    LET adding == {req \in Requests :
                      /\ Len(Trim(req.path)) > 0
                      /\ IsDiscovery(Trim(req.path), discoveryURL)
                      /\ discovery(req).add
                      /\ AddsEntry(discovery(req).service)}
        removing == {path \in Hints : HintKey(path) \in DOMAIN services}
    IN  (server = "serving" /\ adding # {}) \/ removing # {}

\* a goroutine that reads the map now with no lock held: healthCheck inside
\* its range over n.services, or findServiceInMap ranging for a request
MapReaderAtWork ==
    LET finding == {req \in Requests : Len(Trim(req.path)) > 0}
    IN  hc.phase # "idle" \/ (server = "serving" /\ finding # {})

\* the map is written while it is read without the lock: a data race, which
\* the Go runtime may detect and answer by ending the process ("fatal error:
\* concurrent map iteration and map write"). The outcomes in which it goes
\* unnoticed are the interleavings of the other actions.
ConcurrentMapAccess ==
    /\ running
    /\ MapWriterAtWork
    /\ MapReaderAtWork
    /\ running' = FALSE
    /\ services' = NoServices
    /\ hc' = Idle
    /\ last' = [NoOut EXCEPT !.op = "fatal"]
    /\ UNCHANGED <<storage, discoveryURL, storeUp, server>>

Next ==
    \/ HandleRequest
    \/ Pause
    \/ Resume
    \/ RemoveCall
    \/ Tick
    \/ Visit
    \/ ProbeReturns
    \/ EndTick
    \/ ConcurrentMapAccess

Spec == Init /\ [][Next]_vars

\* healthCheck, the call of UpdateStorage taken in its two steps. First the
\* probe returns, a status that differs is stored in the Service and
\* json.Marshal reads the registry; healthCheck holds no lock, so requests
\* are handled before the marshalled text reaches the store
ProbeSerializes(reachable) ==
    LET status == isServiceAlive(hc.url, reachable)
        differs == hc.cur # status
    IN  /\ running
        /\ hc.phase = "probe"
        /\ services' = IF differs /\ hc.live
                         THEN SetStatus(services, hc.key, status)
                       ELSE services
        /\ hc' = IF differs
                   THEN [hc EXCEPT !.phase = "store", !.pending = Stored(services')]
                 ELSE [hc EXCEPT !.phase = "tick", !.key = <<>>, !.cur = NoStatus,
                                 !.url = "", !.live = FALSE]
        /\ last' = [NoOut EXCEPT !.op = "probe", !.sn = hc.key, !.was = hc.cur]
        /\ UNCHANGED <<storage, discoveryURL, storeUp, running, server>>

ProbeSerializesCall == \E reachable \in BOOLEAN : ProbeSerializes(reachable)

\* healthCheck, UpdateStorage: storage.Set writes the text marshalled before
ProbeStores ==
    /\ running
    /\ hc.phase = "store"
    /\ storage' = IF storeUp THEN hc.pending ELSE storage
    /\ hc' = [hc EXCEPT !.phase = "tick", !.key = <<>>, !.cur = NoStatus,
                        !.url = "", !.live = FALSE, !.pending = Absent]
    /\ UNCHANGED <<services, discoveryURL, storeUp, last, running, server>>

\* add and remove by request handlers and callers beside a health check whose
\* snapshot write is taken step by step
NextFine ==
    \/ HandleRequest
    \/ RemoveCall
    \/ Tick
    \/ Visit
    \/ ProbeSerializesCall
    \/ ProbeStores
    \/ EndTick

SpecFine == InitFrom(NewDeployments) /\ [][NextFine]_vars

\* Close with the store connection left open
CloseServerOnly ==
    /\ running
    /\ server = "serving"
    /\ server' = "closed"
    /\ last' = [NoOut EXCEPT !.op = "close"]
    /\ UNCHANGED <<services, storage, discoveryURL, hc, storeUp, running>>

\* Close: server.Close (taken to report no error) ends the listener, then
\* storage.Close ends the store connection: every later Get or Set fails.
\* Nothing here reaches the healthCheck goroutine.
Close ==
    /\ running
    /\ server = "serving"
    /\ server' = "closed"
    /\ storeUp' = FALSE
    /\ last' = [NoOut EXCEPT !.op = "close"]
    /\ UNCHANGED <<services, storage, discoveryURL, hc, running>>

\* Start: ListenAndServe returns ErrServerClosed once the server is closed
StartReturns ==
    /\ running
    /\ server = "closed"
    /\ server' = "returned"
    /\ UNCHANGED <<services, storage, discoveryURL, hc, storeUp, last, running>>

\* a gateway built by New and started with a callback that calls Close, as
\* TestNovisShouldStartUp does: requests and health-check ticks go on beside it
NextLife ==
    \/ HandleRequest
    \/ Tick
    \/ Visit
    \/ ProbeReturns
    \/ EndTick
    \/ Close
    \/ StartReturns

\* the ticker fires every 30 seconds, a probe returns within its 3 seconds of
\* timeout, the range ends, and ListenAndServe returns once the server is closed
SpecLife ==
    /\ InitFrom(NewDeployments)
    /\ [][NextLife]_vars
    /\ WF_vars(Tick)
    /\ WF_vars(Visit)
    /\ WF_vars(ProbeReturns)
    /\ WF_vars(EndTick)
    /\ WF_vars(StartReturns)

\* a gateway built by New whose callback also calls AddService
NextApi ==
    \/ Next
    \/ AddCall

\* the registry of a gateway built by New as discovery, AddService and
\* RemoveService build it, the health check setting the statuses
NextBuild ==
    \/ HandleRequest
    \/ AddCall
    \/ RemoveCall
    \/ Tick
    \/ Visit
    \/ ProbeReturns
    \/ EndTick

SpecNew == InitFrom(NewDeployments) /\ [][NextBuild]_vars

SpecStoreDown == InitFrom(StoreDownDeployments) /\ [][NextApi]_vars

----------------------------------------------------------------------------
(* Properties *)

\* Every operation that changes the registry also rewrites last, so in a state
\* with last.op = "proxy" the registry is the one the request was routed on.

\* C1: a request routed to a registered service is forwarded only when the
\* service's status is UP; for any other status (DOWN, PAUSE, CHECKING, also
\* of a service just added) the answer is 404 and nothing is forwarded
C1_ForwardedOnlyIfUp ==
    (last.op = "proxy" /\ last.sn \in DOMAIN services) =>
        /\ last.forwarded => services[last.sn].Status = UP
        /\ services[last.sn].Status # UP =>
              ~last.forwarded /\ Answered(last.writes) = StatusNotFound

C1_Witness ==
    /\ last.op = "proxy"
    /\ last.sn \in DOMAIN services
    /\ services[last.sn].Status = CHECKING
    /\ ~last.forwarded
    /\ Answered(last.writes) = StatusNotFound

\* C2: a request (not one for the discovery path) forwarded to a service that
\* was registered through AddService under prefix p, and whose path starts
\* with "/"+p in any letter case, is forwarded with exactly that leading
\* "/"+p removed
C2_PrefixStrippedOnce ==
    (/\ last.op = "proxy"
     /\ last.forwarded
     /\ last.sn = AddKey(services[last.sn])
     /\ ToLower(Trim(last.path)) # ToLower(discoveryURL)
     /\ HasPrefix(ToLower(last.path), Slash \o last.sn)) =>
        last.fwdPath = SubSeq(last.path, Len(last.sn) + 2, Len(last.path))

\* C3: find returns a registry key that is a prefix of the lower-cased
\* request path whenever there is one, returns "not found" exactly when there
\* is none, and the router then answers 404
C3_FindReturnsPrefixKey ==
    last.op = "proxy" =>
        LET lp == ToLower(Trim(last.path))
            fits == {k \in DOMAIN services : HasPrefix(lp, k)}
        IN  /\ fits # {} => last.sn \in fits
            /\ last.sn = NotFound <=> fits = {}
            /\ fits = {} => Answered(last.writes) = StatusNotFound

\* C4: a POST to the one-segment discovery path whose body decodes and has an
\* empty healthCheckURL is answered 400, and neither the registry nor the
\* stored snapshot changes
C4_EmptyHealthCheckRejected ==
    [][\A req \in Requests :
          (/\ req.method = "POST"
           /\ ~req.body.malformed
           /\ req.body.HealthCheckURL = ""
           /\ last'.op = "discovery"
           /\ Len(removeEmptyStr(Split(req.path))) = 1
           /\ Handle(req)) =>
              /\ Answered(last'.writes) = StatusBadRequest
              /\ services' = services
              /\ storage' = storage
              /\ ~last'.snap]_vars

C4_Witness ==
    /\ last.op = "discovery"
    /\ last.msg = HealthCheckInvalid
    /\ Answered(last.writes) = StatusBadRequest
    /\ ~last.snap

\* C5: the discovery handler registers a service only for a POST with exactly
\* one path segment; another method is answered 405, another segment count
\* 404, and in both cases nothing is added to the registry
C5_OnlyPostOneSegmentRegisters ==
    [][\A req \in Requests :
          (last'.op = "discovery" /\ Handle(req)) =>
              LET n == Len(removeEmptyStr(Split(req.path)))
                  post == req.method = "POST"
              IN  /\ last'.snap => post /\ n = 1
                  /\ (~post /\ n = 1) =>
                        /\ Answered(last'.writes) = StatusMethodNotAllowed
                        /\ services' = services
                  /\ n # 1 =>
                        /\ Answered(last'.writes) = StatusNotFound
                        /\ services' = services]_vars

\* C6: a request whose trimmed, lower-cased path equals the discovery path is
\* handed to the discovery handler and never routed, whatever the letter case
\* of the request path
C6_DiscoveryPathNeverRouted ==
    [][\A req \in Requests :
          (ToLower(Trim(req.path)) = ToLower(discoveryURL) /\ Handle(req)) =>
              last'.op = "discovery"]_vars

\* C7 as stated: remove of a path whose key is not registered succeeds and
\* changes nothing; after remove of a registered key every lookup of that
\* prefix finds nothing
C7_RemovedPrefixNotFound ==
    [][\A path \in Hints :
          (last'.op = "remove" /\ Remove(path)) =>
              LET k == HintKey(path)
              IN  IF k \notin DOMAIN services
                    THEN services' = services /\ ~last'.err
                  ELSE findServiceInMap(services', k) = {NotFound}]_vars

\* C7 amended: remove of a path whose key is not registered succeeds and
\* changes nothing; remove of a registered key deletes that entry and no
\* other, find never returns a key that is not registered, and a key enters
\* the registry only through AddService. A lookup of the removed prefix may
\* still resolve to another registered key that is a prefix of it.
C7_RemovedKeyNotReturned ==
    [][/\ \A path \in Hints :
            (last'.op = "remove" /\ Remove(path)) =>
                LET k == HintKey(path)
                IN  IF k \notin DOMAIN services
                      THEN services' = services /\ ~last'.err
                    ELSE /\ DOMAIN services' = DOMAIN services \ {k}
                         /\ \A j \in DOMAIN services' : services'[j] = services[j]
                         /\ k \notin findServiceInMap(services', k)
       /\ \A k \in DOMAIN services' \ DOMAIN services : last'.op = "discovery"]_vars

C7_Witness ==
    /\ last.op = "remove"
    /\ last.snap
    /\ last.sn \notin DOMAIN services
    /\ findServiceInMap(services, last.sn) # {NotFound}

\* C8: remove deletes the entry keyed by the lower-cased first non-empty
\* segment of the hint, so a hint with a leading slash removes like one without
C8_RemoveFirstNonEmptySegment ==
    [][\A path \in Hints :
          (last'.op = "remove" /\ Remove(path)) =>
              LET segs == removeEmptyStr(Split(path))
              IN  segs # <<>> => ToLower(segs[1]) \notin DOMAIN services']_vars

\* C9: resume leaves the service it acts on in CHECKING whatever its status
\* was (PAUSE after a pause), and a status becomes UP only when a probe of
\* that service succeeds
C9_ResumeGivesChecking ==
    [][/\ \A path \in Hints :
            (/\ last'.op = "resume"
             /\ HintKey(path) \in DOMAIN services
             /\ ResumeService(path)) =>
                services'[HintKey(path)].Status = CHECKING
       /\ \A k \in DOMAIN services' :
            (/\ services'[k].Status = UP
             /\ k \in DOMAIN services => services[k].Status # UP) =>
                Probe(TRUE) /\ hc.key = k]_vars

C9_Witness ==
    /\ last.op = "resume"
    /\ last.was = PAUSE
    /\ last.sn \in DOMAIN services
    /\ services[last.sn].Status = CHECKING

\* what C10 says of the health check itself: a failed probe of a registered
\* service read as UP leaves it registered with status DOWN, no probe removes
\* an entry, and DOWN turns into UP only by a successful probe of that service
ProbeFailureMarksDown ==
    /\ \A r \in BOOLEAN :
          (hc.phase = "probe" /\ Probe(r)) => DOMAIN services' = DOMAIN services
    /\ (hc.phase = "probe" /\ hc.cur = UP /\ hc.live /\ Probe(FALSE)) =>
          services'[hc.key].Status = DOWN
    /\ \A k \in DOMAIN services \cap DOMAIN services' :
          (services[k].Status = DOWN /\ services'[k].Status = UP) =>
              Probe(TRUE) /\ hc.key = k

\* C10 as stated: ... and every request to the prefix of a service that is
\* DOWN is answered 404
C10_DownPrefixAnswers404 ==
    [][/\ ProbeFailureMarksDown
       /\ \A req \in Requests, k \in DOMAIN services :
            (/\ last'.op = "proxy"
             /\ services[k].Status = DOWN
             /\ HasPrefix(ToLower(Trim(req.path)), k)
             /\ Handle(req)) =>
                ~last'.forwarded /\ Answered(last'.writes) = StatusNotFound]_vars

\* C10 amended: ... and every request the router resolves to a service that
\* is DOWN is answered 404 (a request to its prefix may resolve to another
\* registered service whose key is a prefix of the path)
C10_DownServiceAnswers404 ==
    [][/\ ProbeFailureMarksDown
       /\ (/\ last'.op = "proxy"
           /\ last'.sn \in DOMAIN services
           /\ services[last'.sn].Status = DOWN) =>
              ~last'.forwarded /\ Answered(last'.writes) = StatusNotFound]_vars

C10_Witness ==
    /\ last.op = "probe"
    /\ last.was = UP
    /\ last.sn \in DOMAIN services
    /\ services[last.sn].Status = DOWN

\* C11: once pause has set a status to PAUSE the health monitor never changes
\* it, also when the probe of that service was in flight when pause ran
C11_MonitorKeepsPause ==
    [][\A reachable \in BOOLEAN :
          Probe(reachable) =>
              \A k \in DOMAIN services :
                  services[k].Status = PAUSE =>
                      k \in DOMAIN services' /\ services'[k].Status = PAUSE]_vars

\* UpdateStorage on svcs followed by LoadFromStorage into the empty registry
\* of a fresh gateway, the decoded map ranged over in the given order
RoundTrip(svcs, order) ==
    LoadFromStorage(NoServices, UpdateStorage(svcs, Absent, TRUE), TRUE, order)

SameAfterRoundTrip(svcs) ==
    \A order \in Orders(DOMAIN svcs) :
        LET fresh == RoundTrip(svcs, order)
        IN  /\ DOMAIN fresh = DOMAIN svcs
            /\ \A k \in DOMAIN svcs :
                  /\ fresh[k].Host = svcs[k].Host
                  /\ fresh[k].Path = svcs[k].Path
                  /\ fresh[k].HealthCheckURL = svcs[k].HealthCheckURL

C13_FailedSnapshotKeepsMutation ==
    [][~storeUp =>
        /\ storage' = storage
        /\ \A req \in Requests :
              LET d == discovery(req)
              IN  (/\ last'.op = "discovery"
                   /\ last'.snap
                   /\ Len(Trim(req.path)) > 0
                   /\ IsDiscovery(Trim(req.path), discoveryURL)
                   /\ d.add /\ AddsEntry(d.service)
                   /\ Handle(req)) =>
                      /\ AddKey(d.service) \in DOMAIN services'
                      /\ services'[AddKey(d.service)] = d.service
                      /\ ~last'.err
        /\ \A service \in ApiServices :
              (last'.op = "add" /\ AddsEntry(service) /\ Add(service)) =>
                  /\ AddKey(service) \in DOMAIN services'
                  /\ services'[AddKey(service)] = service
                  /\ ~last'.err
        /\ \A path \in Hints :
              (/\ last'.op = "remove"
               /\ HintKey(path) \in DOMAIN services
               /\ Remove(path)) =>
                  HintKey(path) \notin DOMAIN services'
        /\ \A reachable \in BOOLEAN :
              (/\ hc.phase = "probe"
               /\ hc.live
               /\ isServiceAlive(hc.url, reachable) # hc.cur
               /\ Probe(reachable)) =>
                  /\ services'[hc.key].Status = isServiceAlive(hc.url, reachable)
                  /\ hc'.phase = "tick"
                  /\ hc'.seen = hc.seen]_vars

C13_Witness ==
    /\ ~storeUp
    /\ last.op = "probe"
    /\ last.sn \in DOMAIN services
    /\ services[last.sn].Status = UP
    /\ last.was # UP
    /\ hc.phase = "tick"
    /\ DOMAIN services \ hc.seen # {}
    /\ DOMAIN storage.value # DOMAIN services

\* C14: a service enters the registry with status CHECKING, leaves CHECKING
\* for UP or DOWN only by a probe of the health check, and no registered
\* service has a status outside UP, DOWN, PAUSE, CHECKING
C14_EntersChecking ==
    /\ [](\A k \in DOMAIN services :
              services[k].Status \in {UP, DOWN, PAUSE, CHECKING})
    /\ [][\A k \in DOMAIN services' :
             /\ k \notin DOMAIN services => services'[k].Status = CHECKING
             /\ (/\ k \in DOMAIN services
                 /\ services[k].Status = CHECKING
                 /\ services'[k].Status \in {UP, DOWN}) => ProbeReturns]_vars

\* C15: after Close the health-check loop eventually exits: from some point
\* on it is never again inside a tick, and once the shutdown is complete
\* (Start has returned) no further tick begins
C15_MonitorExitsAfterClose ==
    /\ [](server # "serving" => <>[](hc.phase = "idle"))
    /\ [][server = "returned" => ~Tick]_vars

C17_UnknownPauseResumeNoOp ==
    [][\A path \in Hints :
          (/\ HintKey(path) \notin DOMAIN services
           /\ PauseService(path) \/ ResumeService(path)) =>
              services' = services /\ running']_vars

\* C18: the registry lock keeps every insert and delete out of the time in
\* which another task iterates the map: while the health check is inside its
\* range over the registry no add and no remove takes effect, and the map is
\* never written while it is read without the lock
C18_NoMapWriteDuringIteration ==
    [][/\ (hc.phase # "idle" /\ (HandleRequest \/ RemoveCall)) => ~last'.snap
       /\ ~ConcurrentMapAccess]_vars

\* C19: with a store that never fails, once no operation is in flight the
\* stored snapshot has exactly the keys of the registry
C19_StoreMatchesRegistryAtRest ==
    (storeUp /\ hc.phase = "idle") =>
        storage.present /\ DOMAIN storage.value = DOMAIN services

KeysNormalised ==
    \A k \in DOMAIN services :
        /\ k # <<>>
        /\ k = ToLower(k)
        /\ k = Trim(k)
        /\ k = ToLower(Trim(services[k].Path))
        /\ \A j \in DOMAIN services : ToLower(j) = ToLower(k) => j = k

\* C20: in every reachable state every registry key is non-empty, lower-case,
\* free of leading and trailing slashes and equal to lower(trim(path)) of its
\* service, no two keys are equal case-insensitively; and an add with a path
\* that is empty after trimming changes neither the registry nor the snapshot
C20_KeysNormalised ==
    /\ []KeysNormalised
    /\ [][\A req \in Requests :
             LET d == discovery(req)
             IN  (/\ Len(Trim(req.path)) > 0
                  /\ IsDiscovery(Trim(req.path), discoveryURL)
                  /\ d.add /\ ~AddsEntry(d.service)
                  /\ Handle(req)) =>
                     services' = services /\ storage' = storage]_vars

====
